---------------------------- MODULE Spec2Model ----------------------------
(***************************************************************************)
(* agent-meter: the Merkle batch attestation subsystem (buildMerkleRoot,   *)
(* buildAttestation, verifyAttestation), the AttestationTransport and      *)
(* HttpTransport sinks, request signing and the AgentMeter middleware.     *)
(*                                                                         *)
(* Strings are sequences of tokens, so that string concatenation           *)
(* (left + right, `${a}:${b}:${c}`) is sequence concatenation and keeps    *)
(* its ambiguities.  A digest is the token sequence naming the algorithm,  *)
(* the key and the data it was computed from: SHA-256 and HMAC-SHA256 are  *)
(* idealised as collision free, and randomBytes(16) as never repeating.    *)
(***************************************************************************)
EXTENDS Integers, Sequences, FiniteSets, TLC

VARIABLES
    \* process-wide utilities (utils.ts)
    idCounter,      \* number of identifiers drawn from generateId so far
    now,            \* the wall clock read by timestamp()
    \* inputs and results of the exported pure functions
    leaves,         \* argument of buildMerkleRoot
    rootRes,        \* its result: <<>> before the call, else <<result>>
    records,        \* argument of buildAttestation
    secret,         \* the signing secret of the service
    built,          \* attestations returned by buildAttestation, in call order
    buildThrew,     \* buildAttestation raised "Cannot attest empty batch"
    cand,           \* <<attestation>> handed to verifyAttestation, or <<>>
    tamper,         \* how cand differs from the attestation that was built
    vsecret,        \* the secret handed to verifyAttestation
    verdict,        \* "none", "true", "false" or "threw"
    \* AttestationTransport and what it calls
    batchSize,      \* options.batchSize
    hasDelegate,    \* options.delegate is set
    buffer,         \* this.buffer
    handed,         \* attestations passed to onAttestation, in call order
    flushes,        \* flushes[i]: where the flush that handed handed[i] stands
    flushThrew,     \* buildAttestation raised inside flush
    delegateSent,   \* records passed to delegate.send, in call order
    delegateFlushes, \* number of calls of delegate.flush
    sent,           \* records passed to send, in call order
    lastCall,       \* the last call made on the sink: "none", "send", "flush"
    \* HttpTransport
    endpoint,       \* how a failing request to options.url fails: "status" or "throw"
    hBatchSize,     \* this.batchSize
    maxRetries,     \* this.maxRetries
    hasOnError,     \* options.onError is set
    hasInterval,    \* options.flushIntervalMs is set and not zero
    timer,          \* this.timer is not null
    hBuffer,        \* this.buffer
    batches,        \* batches[i]: the i-th batch a flush detached and how far its flush got
    hSent,          \* records passed to send, in call order
    hLastCall,      \* the last call of send or flush: "none", "send", "flush", "emptyFlush"
                    \* (flush() that found the buffer empty), "timer" (flush by the timer)
    \* signPayload and verifySignature applied to bounded inputs
    sgPayload,      \* the payload an agent signs
    sgSecret,       \* the secret it signs with
    sgSignature,    \* <<>> before signPayload is called, else <<the signature presented>>
    sgResult,       \* <<>>, else <<the call of verifySignature and its result>>
    \* AgentMeter and one request passing through it
    config,         \* this.config
    req,            \* the request: its headers and body
    mRes,           \* res, the response: statusCode, and whether res.on is defined
    options,        \* the route options of the call
    entry,          \* "none" until the middleware is called with the request, then "express"
    finish,         \* the closure finish: "none", "listening", "ran" or "threw"
    calls,          \* how often each callback of config and options was invoked
    hookArg,        \* <<the record handed to config.beforeEmit>>, or <<>>
    hookRet,        \* <<what config.beforeEmit returned>>, or <<>>
    mSent,          \* records passed to this.transport.send, in call order
    nextCalls       \* number of calls of next()

utilVars == <<idCounter, now>>
pureVars == <<leaves, rootRes, records, secret, built, buildThrew, cand,
              tamper, vsecret, verdict>>
sinkVars == <<batchSize, hasDelegate, buffer, handed, flushes, flushThrew,
              delegateSent, delegateFlushes, sent, lastCall>>
httpVars == <<endpoint, hBatchSize, maxRetries, hasOnError, hasInterval, timer, hBuffer,
              batches, hSent, hLastCall>>
signVars == <<sgPayload, sgSecret, sgSignature, sgResult>>
meterVars == <<config, req, mRes, options, entry, finish, calls, hookArg, hookRet, mSent,
               nextCalls>>
vars == <<utilVars, pureVars, sinkVars, httpVars, signVars, meterVars>>

---------------------------------------------------------------------------
(* Bounds of the model *)

MaxLeaves == 6
MaxBatch == 3
MaxBuilds == 2
MaxClock == 1
MaxSends == 3
MaxBatchSize == 3
MaxHttpSends == 2
MaxHttpBatchSize == 2
MaxRetries == 2

---------------------------------------------------------------------------
(* Strings, JSON and digests *)

\* The value of an optional member that is not set.
Undefined == <<"undefined">>

\* Result of a call that may throw.
Return(v) == [threw |-> FALSE, value |-> v]
Throw(msg) == [threw |-> TRUE, value |-> <<msg>>]

\* randomBytes(16).toString("hex"): the n-th draw.
GenerateId(n) == <<"id", ToString(n)>>

\* new Date().toISOString(): an ISO-8601 time, whose clock part holds colons.
Timestamp(t) == <<"2026-11-04T00", ":", "00", ":", ToString(t), "Z">>

\* JSON.stringify of a string and of a finite number.
JSONString(s) == <<"\"">> \o s \o <<"\"">>
JSONNumber(n) == <<ToString(n)>>

\* JSON.stringify(record): members in insertion order, a member whose value
\* is undefined is left out.  The members kept by the model are id, units and
\* the optional requestSignature; the other members of UsageRecord are strings
\* and numbers serialised the same way.
JSONStringify(r) ==
    <<"{", "id", ":">> \o JSONString(r.id)
    \o <<",", "units", ":">> \o JSONNumber(r.units)
    \o (IF r.requestSignature = Undefined
        THEN <<>>
        ELSE <<",", "requestSignature", ":">> \o JSONString(r.requestSignature))
    \o <<"}">>

\* createHash("sha256").update(data).digest("hex")
Sha256Hex(data) == <<"sha256(">> \o data \o <<")">>

\* createHmac("sha256", key).update(data).digest("hex")
HmacSha256Hex(key, data) == <<"hmac(">> \o key \o <<";">> \o data \o <<")">>

hashRecord(record, key) == HmacSha256Hex(key, JSONStringify(record))

hashPair(left, right) == Sha256Hex(left \o right)

---------------------------------------------------------------------------
(* buildMerkleRoot *)

\* The for loop carrying the last node of an odd level up unhashed.
NextLevel_CarryOdd(level) ==
    [k \in 1..((Len(level) + 1) \div 2) |->
        IF 2 * k <= Len(level)
        THEN hashPair(level[2 * k - 1], level[2 * k])
        ELSE level[2 * k - 1]]

\* One pass of the for loop: next holds one parent per pair of the level.
NextLevel(level) ==
    [k \in 1..((Len(level) + 1) \div 2) |->
        LET left == level[2 * k - 1]
            right == IF 2 * k <= Len(level) THEN level[2 * k] ELSE left
        IN  hashPair(left, right)]

RECURSIVE WhileLevel(_)
WhileLevel(level) ==
    IF Len(level) > 1 THEN WhileLevel(NextLevel(level)) ELSE level[1]

\* buildMerkleRoot returning the empty string for no leaves.
buildMerkleRoot_EmptyRoot(lvs) ==
    IF Len(lvs) = 0 THEN Return(<<>>) ELSE Return(WhileLevel(lvs))

buildMerkleRoot(lvs) ==
    IF Len(lvs) = 0 THEN Throw("Cannot build Merkle root from empty leaves")
    ELSE IF Len(lvs) = 1 THEN Return(lvs[1])
    ELSE Return(WhileLevel(lvs))

---------------------------------------------------------------------------
(* buildAttestation and verifyAttestation *)

SigPayload(batchId, ts, merkleRoot) ==
    batchId \o <<":">> \o ts \o <<":">> \o merkleRoot

\* buildAttestation signing timestamp:batchId:merkleRoot.
buildAttestation_SigOrder(recs, serviceId, key, batchId, ts) ==
    LET lvs == [i \in 1..Len(recs) |-> hashRecord(recs[i], key)]
        merkleRoot == buildMerkleRoot(lvs).value
    IN  IF Len(recs) = 0 THEN Throw("Cannot attest empty batch")
        ELSE Return(<<[batchId |-> batchId, timestamp |-> ts,
                       serviceId |-> serviceId, recordCount |-> Len(recs),
                       merkleRoot |-> merkleRoot,
                       signature |-> HmacSha256Hex(key,
                                        SigPayload(ts, batchId, merkleRoot)),
                       records |-> recs]>>)

\* buildAttestation deriving batchId from the batch content.
buildAttestation_ContentId(recs, serviceId, key, batchId, ts) ==
    LET lvs == [i \in 1..Len(recs) |-> hashRecord(recs[i], key)]
        merkleRoot == buildMerkleRoot(lvs).value
        contentId == Sha256Hex(merkleRoot)
    IN  IF Len(recs) = 0 THEN Throw("Cannot attest empty batch")
        ELSE Return(<<[batchId |-> contentId, timestamp |-> ts,
                       serviceId |-> serviceId, recordCount |-> Len(recs),
                       merkleRoot |-> merkleRoot,
                       signature |-> HmacSha256Hex(key,
                                        SigPayload(contentId, ts, merkleRoot)),
                       records |-> recs]>>)

\* The result's value is <<attestation>>, or the error of an empty batch.
\* batchId and ts are the values generateId() and timestamp() return.
buildAttestation(recs, serviceId, key, batchId, ts) ==
    IF Len(recs) = 0 THEN Throw("Cannot attest empty batch")
    ELSE LET lvs == [i \in 1..Len(recs) |-> hashRecord(recs[i], key)]
             merkleRoot == buildMerkleRoot(lvs).value
         IN  Return(<<[batchId |-> batchId,
                       timestamp |-> ts,
                       serviceId |-> serviceId,
                       recordCount |-> Len(recs),
                       merkleRoot |-> merkleRoot,
                       signature |-> HmacSha256Hex(key,
                                        SigPayload(batchId, ts, merkleRoot)),
                       records |-> recs]>>)

\* verifyAttestation without the signature comparison.
verifyAttestation_NoSignature(att, key) ==
    IF Len(att.records) # att.recordCount THEN Return(FALSE)
    ELSE LET lvs == [i \in 1..Len(att.records) |-> hashRecord(att.records[i], key)]
             computed == buildMerkleRoot(lvs)
         IN  IF computed.threw THEN Return(FALSE)
             ELSE Return(computed.value = att.merkleRoot)

\* verifyAttestation without the try/catch around buildMerkleRoot.
verifyAttestation_NoCatch(att, key) ==
    IF Len(att.records) # att.recordCount THEN Return(FALSE)
    ELSE LET lvs == [i \in 1..Len(att.records) |-> hashRecord(att.records[i], key)]
             computed == buildMerkleRoot(lvs)
         IN  IF computed.threw THEN computed
             ELSE IF computed.value # att.merkleRoot THEN Return(FALSE)
             ELSE Return(HmacSha256Hex(key,
                            SigPayload(att.batchId, att.timestamp, att.merkleRoot))
                         = att.signature)

verifyAttestation(att, key) ==
    IF Len(att.records) # att.recordCount THEN Return(FALSE)
    ELSE LET lvs == [i \in 1..Len(att.records) |-> hashRecord(att.records[i], key)]
             computed == buildMerkleRoot(lvs)
         IN  IF computed.threw THEN Return(FALSE)
             ELSE IF computed.value # att.merkleRoot THEN Return(FALSE)
             ELSE Return(HmacSha256Hex(key,
                            SigPayload(att.batchId, att.timestamp, att.merkleRoot))
                         = att.signature)

---------------------------------------------------------------------------
(* Inputs of the exported functions *)

ServiceId == <<"svc">>
Secrets == {<<"k1">>, <<"k2">>}

\* Leaves handed to buildMerkleRoot are arbitrary strings.
LeafSet == {<<"a">>, <<"b", "c">>}

\* Values a record member can take.
RecordIds == {<<"r1">>, <<"r2">>}
UnitsSet == {1, 2}
SignatureSet == {Undefined, <<"sg">>}

UsageRecord(id, units, sig) ==
    [id |-> id, units |-> units, requestSignature |-> sig]

\* Records of the batches handed to buildAttestation.
InputRecords ==
    {UsageRecord(<<"r1">>, 1, Undefined),
     UsageRecord(<<"r2">>, 2, <<"sg">>)}

BoundedSeq(S, n) == UNION {[1..k -> S] : k \in 0..n}

VerdictOf(res) ==
    IF res.threw THEN "threw" ELSE IF res.value THEN "true" ELSE "false"

---------------------------------------------------------------------------
(* The exported functions applied to bounded inputs *)

\* No sink is constructed.
SinkIdle ==
    /\ batchSize = 10
    /\ hasDelegate = FALSE
    /\ buffer = <<>>
    /\ handed = <<>>
    /\ flushes = <<>>
    /\ flushThrew = FALSE
    /\ delegateSent = <<>>
    /\ delegateFlushes = 0
    /\ sent = <<>>
    /\ lastCall = "none"

\* No HttpTransport is constructed.
HttpIdle ==
    /\ endpoint = "status"
    /\ hBatchSize = 10
    /\ maxRetries = 3
    /\ hasOnError = FALSE
    /\ hasInterval = FALSE
    /\ timer = FALSE
    /\ hBuffer = <<>>
    /\ batches = <<>>
    /\ hSent = <<>>
    /\ hLastCall = "none"

\* signPayload and verifySignature are not called.
SignIdle ==
    /\ sgPayload = <<>>
    /\ sgSecret = <<>>
    /\ sgSignature = <<>>
    /\ sgResult = <<>>

\* No AgentMeter is constructed.
MeterIdle ==
    /\ config = <<>>
    /\ req = <<>>
    /\ mRes = <<>>
    /\ options = <<>>
    /\ entry = "none"
    /\ finish = "none"
    /\ calls = <<>>
    /\ hookArg = <<>>
    /\ hookRet = <<>>
    /\ mSent = <<>>
    /\ nextCalls = 0

InitPure ==
    /\ idCounter = 0
    /\ now = 0
    /\ secret \in Secrets
    /\ \/ /\ records = <<>>
          /\ leaves \in BoundedSeq(LeafSet, MaxLeaves)
       \/ /\ records \in BoundedSeq(InputRecords, MaxBatch) \ {<<>>}
          /\ leaves = <<>>
    /\ rootRes = <<>>
    /\ built = <<>>
    /\ buildThrew = FALSE
    /\ cand = <<>>
    /\ tamper = "none"
    /\ vsecret = secret
    /\ verdict = "none"
    /\ SinkIdle
    /\ HttpIdle
    /\ SignIdle
    /\ MeterIdle

\* Time passes between two calls (until verifyAttestation is called, in the
\* harness of the exported functions).
Tick ==
    /\ now < MaxClock
    /\ verdict = "none"
    /\ now' = now + 1
    /\ UNCHANGED <<idCounter, pureVars, sinkVars, httpVars, signVars, meterVars>>

CallBuildMerkleRoot ==
    /\ rootRes = <<>>
    /\ rootRes' = <<buildMerkleRoot(leaves)>>
    /\ UNCHANGED <<utilVars, leaves, records, secret, built, buildThrew, cand,
                   tamper, vsecret, verdict, sinkVars, httpVars, signVars, meterVars>>

\* generateId() and timestamp() are called after the empty-batch check.
CallBuildAttestation ==
    /\ Len(built) < MaxBuilds
    /\ ~buildThrew
    /\ verdict = "none"
    /\ LET res == buildAttestation(records, ServiceId, secret,
                                   GenerateId(idCounter), Timestamp(now))
       IN  IF res.threw
           THEN /\ buildThrew' = TRUE
                /\ UNCHANGED <<built, idCounter>>
           ELSE /\ built' = built \o res.value
                /\ idCounter' = idCounter + 1
                /\ UNCHANGED buildThrew
    /\ UNCHANGED <<now, leaves, rootRes, records, secret, cand, tamper,
                   vsecret, verdict, sinkVars, httpVars, signVars, meterVars>>

\* verifyAttestation(c, key), c being the attestation built last, changed as
\* `how` says.
Present(c, key, how) ==
    /\ verdict = "none"
    /\ cand' = <<c>>
    /\ tamper' = how
    /\ vsecret' = key
    /\ verdict' = VerdictOf(verifyAttestation(c, key))
    /\ UNCHANGED <<utilVars, leaves, rootRes, records, secret, built, buildThrew,
                   sinkVars, httpVars, signVars, meterVars>>

VerifyBuilt ==
    \E i \in {Len(built)} \ {0} : Present(built[i], secret, "unmodified")

VerifyWrongSecret ==
    \E i \in {Len(built)} \ {0} : \E key \in Secrets \ {secret} :
        Present(built[i], key, "secret")

\* One member of one record is changed.
VerifyTamperedRecord ==
    \E i \in {Len(built)} \ {0} : \E k \in 1..Len(built[i].records) :
        LET r == built[i].records[k] IN
        \E t \in {UsageRecord(id, r.units, r.requestSignature) : id \in RecordIds}
                 \cup {UsageRecord(r.id, u, r.requestSignature) : u \in UnitsSet}
                 \cup {UsageRecord(r.id, r.units, sg) : sg \in SignatureSet} :
            /\ t # r
            /\ Present([built[i] EXCEPT !.records[k] = t], secret, "record")

VerifyTamperedRoot ==
    \E i \in {Len(built)} \ {0} :
        \E v \in {<<"0">>, built[i].signature,
                  hashRecord(built[i].records[1], secret),
                  hashPair(built[i].merkleRoot, built[i].merkleRoot)} :
            /\ v # built[i].merkleRoot
            /\ Present([built[i] EXCEPT !.merkleRoot = v], secret, "merkleRoot")

VerifyTamperedSignature ==
    \E i \in {Len(built)} \ {0} :
        \E v \in {<<"0">>, built[i].merkleRoot}
                 \cup {HmacSha256Hex(key, SigPayload(built[i].batchId,
                           built[i].timestamp, built[i].merkleRoot)) :
                       key \in Secrets}
                 \cup {built[j].signature : j \in 1..Len(built)} :
            /\ v # built[i].signature
            /\ Present([built[i] EXCEPT !.signature = v], secret, "signature")

VerifyTamperedCount ==
    \E i \in {Len(built)} \ {0} : \E n \in 0..(MaxBatch + 1) :
        /\ n # built[i].recordCount
        /\ Present([built[i] EXCEPT !.recordCount = n], secret, "recordCount")

\* Lists obtained from recs by appending a record, removing one or repeating one.
Manipulated(recs) ==
    {Append(recs, r) : r \in InputRecords}
    \cup {SubSeq(recs, 1, k - 1) \o SubSeq(recs, k + 1, Len(recs)) : k \in 1..Len(recs)}
    \cup {SubSeq(recs, 1, k) \o SubSeq(recs, k, Len(recs)) : k \in 1..Len(recs)}

\* The record list is changed and recordCount follows it.
VerifyManipulatedBatch ==
    \E i \in {Len(built)} \ {0} : \E recs \in Manipulated(built[i].records) :
        Present([built[i] EXCEPT !.records = recs, !.recordCount = Len(recs)],
                secret, "batch")

NextPure ==
    \/ Tick
    \/ CallBuildMerkleRoot
    \/ CallBuildAttestation
    \/ VerifyBuilt
    \/ VerifyWrongSecret
    \/ VerifyTamperedRecord
    \/ VerifyTamperedRoot
    \/ VerifyTamperedSignature
    \/ VerifyTamperedCount
    \/ VerifyManipulatedBatch

SpecPure == InitPure /\ [][NextPure]_vars

---------------------------------------------------------------------------
(* AttestationTransport *)

\* The harness of the exported functions is not used.
PureIdle ==
    /\ leaves = <<>>
    /\ rootRes = <<>>
    /\ records = <<>>
    /\ built = <<>>
    /\ buildThrew = FALSE
    /\ cand = <<>>
    /\ tamper = "none"
    /\ vsecret = secret
    /\ verdict = "none"

\* new AttestationTransport(options)
Init ==
    /\ idCounter = 0
    /\ now = 0
    /\ secret \in Secrets
    /\ PureIdle
    /\ batchSize \in 1..MaxBatchSize
    /\ hasDelegate \in BOOLEAN
    /\ buffer = <<>>
    /\ handed = <<>>
    /\ flushes = <<>>
    /\ flushThrew = FALSE
    /\ delegateSent = <<>>
    /\ delegateFlushes = 0
    /\ sent = <<>>
    /\ lastCall = "none"
    /\ HttpIdle
    /\ SignIdle
    /\ MeterIdle

\* flush() detaching the buffer without the empty check.
flush_NoEmptyCheck(buf, drawn) ==
    LET res == buildAttestation(buf, ServiceId, secret,
                                GenerateId(drawn), Timestamp(now))
    IN  /\ buffer' = <<>>
        /\ IF res.threw
           THEN /\ flushThrew' = TRUE
                /\ idCounter' = drawn
                /\ UNCHANGED <<handed, flushes>>
           ELSE /\ handed' = handed \o res.value
                /\ flushes' = Append(flushes, "handler")
                /\ idCounter' = drawn + 1
                /\ UNCHANGED flushThrew

\* flush() reading the buffer with slice(0), which leaves it in place.
flush_KeepBuffer(buf, drawn) ==
    IF Len(buf) = 0
    THEN /\ buffer' = buf
         /\ idCounter' = drawn
         /\ UNCHANGED <<handed, flushes, flushThrew>>
    ELSE LET res == buildAttestation(buf, ServiceId, secret,
                                     GenerateId(drawn), Timestamp(now))
         IN  /\ buffer' = buf
             /\ handed' = handed \o res.value
             /\ flushes' = Append(flushes, "handler")
             /\ idCounter' = drawn + 1
             /\ UNCHANGED flushThrew

\* flush(), up to its first await: the empty check, the splice, the build and
\* the call of onAttestation run in one turn.  buf is this.buffer when flush
\* is entered and drawn the number of identifiers drawn before.
flush(buf, drawn) ==
    IF Len(buf) = 0
    THEN /\ buffer' = buf
         /\ idCounter' = drawn
         /\ UNCHANGED <<handed, flushes, flushThrew>>
    ELSE LET res == buildAttestation(buf, ServiceId, secret,
                                     GenerateId(drawn), Timestamp(now))
         IN  /\ buffer' = <<>>
             /\ IF res.threw
                THEN /\ flushThrew' = TRUE
                     /\ idCounter' = drawn
                     /\ UNCHANGED <<handed, flushes>>
                ELSE /\ handed' = handed \o res.value
                     /\ flushes' = Append(flushes, "handler")
                     /\ idCounter' = drawn + 1
                     /\ UNCHANGED flushThrew

\* send(record) forwarding to the delegate only when it does not flush.
send_ForwardUnlessFlush(record) ==
    LET pushed == Append(buffer, record) IN
    /\ sent' = Append(sent, record)
    /\ lastCall' = "send"
    /\ IF Len(pushed) >= batchSize
       THEN /\ flush(pushed, idCounter + 1)
            /\ UNCHANGED delegateSent
       ELSE /\ buffer' = pushed
            /\ delegateSent' = IF hasDelegate THEN Append(delegateSent, record)
                               ELSE delegateSent
            /\ idCounter' = idCounter + 1
            /\ UNCHANGED <<handed, flushes, flushThrew>>
    /\ UNCHANGED <<now, pureVars, httpVars, signVars, meterVars,
                   batchSize, hasDelegate, delegateFlushes>>

\* send(record); the record's id was drawn by the caller.
send(record) ==
    LET pushed == Append(buffer, record) IN
    /\ sent' = Append(sent, record)
    /\ lastCall' = "send"
    /\ delegateSent' = IF hasDelegate THEN Append(delegateSent, record)
                       ELSE delegateSent
    /\ IF Len(pushed) >= batchSize
       THEN flush(pushed, idCounter + 1)
       ELSE /\ buffer' = pushed
            /\ idCounter' = idCounter + 1
            /\ UNCHANGED <<handed, flushes, flushThrew>>
    /\ UNCHANGED <<now, pureVars, httpVars, signVars, meterVars,
                   batchSize, hasDelegate, delegateFlushes>>

\* The records sent are the ones AgentMeter builds by default: a fresh id,
\* one unit, no request signature.
Send ==
    /\ Len(sent) < MaxSends
    /\ send(UsageRecord(GenerateId(idCounter), 1, Undefined))

\* An explicit call of flush().
Flush ==
    /\ flush(buffer, idCounter)
    /\ lastCall' = "flush"
    /\ UNCHANGED <<now, pureVars, httpVars, signVars, meterVars,
                   batchSize, hasDelegate, delegateSent,
                   delegateFlushes, sent>>

\* flush() calling the delegate's flush in a finally block: the delegate is
\* flushed whether onAttestation fulfils or rejects.
HandlerSettles_FinallyDelegateFlush ==
    \E i \in 1..Len(flushes) : \E ok \in BOOLEAN :
        /\ flushes[i] = "handler"
        /\ flushes' = [flushes EXCEPT ![i] = IF ok THEN "delegateFlush"
                                                 ELSE "rejected"]
        /\ delegateFlushes' = delegateFlushes + (IF hasDelegate THEN 1 ELSE 0)
        /\ UNCHANGED <<utilVars, pureVars, httpVars, signVars, meterVars,
                       batchSize, hasDelegate, buffer, handed,
                       flushThrew, delegateSent, sent, lastCall>>

\* The value onAttestation returned settles: flush goes on to the delegate's
\* flush, or is rejected with the handler's error.
HandlerSettles ==
    \E i \in 1..Len(flushes) : \E ok \in BOOLEAN :
        /\ flushes[i] = "handler"
        /\ IF ok
           THEN /\ flushes' = [flushes EXCEPT ![i] = "delegateFlush"]
                /\ delegateFlushes' = delegateFlushes + (IF hasDelegate THEN 1 ELSE 0)
           ELSE /\ flushes' = [flushes EXCEPT ![i] = "rejected"]
                /\ UNCHANGED delegateFlushes
        /\ UNCHANGED <<utilVars, pureVars, httpVars, signVars, meterVars,
                       batchSize, hasDelegate, buffer, handed,
                       flushThrew, delegateSent, sent, lastCall>>

\* The value of delegate.flush() settles and the flush completes.
DelegateFlushSettles ==
    \E i \in 1..Len(flushes) :
        /\ flushes[i] = "delegateFlush"
        /\ flushes' = [flushes EXCEPT ![i] = "done"]
        /\ UNCHANGED <<utilVars, pureVars, httpVars, signVars, meterVars,
                       batchSize, hasDelegate, buffer, handed,
                       flushThrew, delegateSent, delegateFlushes, sent, lastCall>>

Next ==
    \/ Send
    \/ Flush
    \/ HandlerSettles
    \/ DelegateFlushSettles
    \/ Tick

Spec == Init /\ [][Next]_vars

---------------------------------------------------------------------------
(* HttpTransport *)

\* options.maxRetries ?? 3
DefaultMaxRetries == 3

\* The base of the backoff delay, in milliseconds.
BackoffBase == 100

\* a ?? b, for an option a given as <<value>> and left out as <<>>.
Coalesce(a, b) == IF a = <<>> THEN b ELSE a[1]

\* JSON.stringify of an array of records.
RECURSIVE JSONElements(_)
JSONElements(recs) ==
    IF recs = <<>> THEN <<>>
    ELSE IF Len(recs) = 1 THEN JSONStringify(recs[1])
    ELSE JSONStringify(recs[1]) \o <<",">> \o JSONElements(Tail(recs))

\* JSON.stringify({ records: batch }), the body of the POST request.
Body(batch) == <<"{", "records", ":", "[">> \o JSONElements(batch) \o <<"]", "}">>

\* What the awaited fetch can do: fulfil with an ok response, fulfil with a
\* response that is not ok, or reject.
FetchOutcomes == {"ok", "status", "throw"}

\* lastError after the attempt-th fetch of a batch failed: the Error fetch
\* rejected with, or new Error(`HTTP ${status}: ${statusText}`).
ErrorOf(outcome, attempt) ==
    IF outcome = "throw"
    THEN <<"Network error", ToString(attempt)>>
    ELSE <<"HTTP ", "502", ": ", "Bad Gateway", ToString(attempt)>>

\* A backoff that grows linearly: 100, 200, 300, ...
Backoff_Linear(attempt) == BackoffBase * (attempt + 1)

\* sleep(100 * (attempt + 1) ** 2)
Backoff(attempt) == BackoffBase * (attempt + 1) ^ 2

\* The fetch call of a flush whose batch is this.buffer itself, not a
\* spliced copy: the request carries what has been pushed since.
CallFetch_LiveBuffer(b) ==
    [b EXCEPT !.stage = "fetch",
              !.payloads = Append(@, Body(b.records \o hBuffer))]

\* The fetch call of the loop body: one more request carrying the batch.
CallFetch(b) ==
    [b EXCEPT !.stage = "fetch", !.payloads = Append(@, Body(b.records))]

\* The statements after the loop: onError(lastError, batch) when both are
\* set; throws says whether the handler throws.
AfterLoop(b, throws) ==
    IF b.lastError # Undefined /\ hasOnError
    THEN [b EXCEPT !.onError = Append(@, [error |-> b.lastError,
                                           batch |-> b.records]),
                   !.stage = IF throws THEN "rejected" ELSE "gaveUp"]
    ELSE [b EXCEPT !.stage = "gaveUp"]

\* A flush that does not await its request: it ends as soon as the first
\* fetch is called.
NewBatch_NoAwait(recs, trigger) ==
    LET b == [records |-> recs, trigger |-> trigger, attempt |-> 0,
              stage |-> "start", payloads |-> <<>>, outcomes |-> <<>>,
              lastError |-> Undefined, delays |-> <<>>, onError |-> <<>>]
    IN  IF 0 < maxRetries
        THEN [b EXCEPT !.stage = "gaveUp", !.payloads = <<Body(recs)>>]
        ELSE AfterLoop(b, FALSE)

\* The batch a flush detached, run up to the first await of the flush: the
\* first fetch, or the end of flush when the loop body never runs.
NewBatch(recs, trigger) ==
    LET b == [records |-> recs, trigger |-> trigger, attempt |-> 0,
              stage |-> "start", payloads |-> <<>>, outcomes |-> <<>>,
              lastError |-> Undefined, delays |-> <<>>, onError |-> <<>>]
    IN  IF 0 < maxRetries THEN CallFetch(b) ELSE AfterLoop(b, FALSE)

\* flush without try and catch around the request, as in a transport that
\* awaits fetch bare: a rejected fetch rejects the flush.
AfterFetch_NoCatch(b, outcome, throws) ==
    IF outcome = "ok"
    THEN [b EXCEPT !.stage = "delivered", !.outcomes = Append(@, outcome)]
    ELSE IF outcome = "throw"
    THEN [b EXCEPT !.stage = "rejected", !.outcomes = Append(@, outcome)]
    ELSE LET failed == [b EXCEPT !.lastError = ErrorOf(outcome, b.attempt),
                                 !.outcomes = Append(@, outcome)]
         IN  IF b.attempt < maxRetries - 1
             THEN [failed EXCEPT !.stage = "sleep",
                                 !.delays = Append(@, Backoff(b.attempt))]
             ELSE AfterLoop([failed EXCEPT !.attempt = @ + 1], throws)

\* flush calling onError inside the loop, after every failed attempt.
AfterFetch_ReportEachFailure(b, outcome, throws) ==
    IF outcome = "ok"
    THEN [b EXCEPT !.stage = "delivered", !.outcomes = Append(@, outcome)]
    ELSE LET failed == [b EXCEPT !.lastError = ErrorOf(outcome, b.attempt),
                                 !.outcomes = Append(@, outcome)]
             reported == AfterLoop(failed, throws)
         IN  IF b.attempt < maxRetries - 1 /\ reported.stage = "gaveUp"
             THEN [reported EXCEPT !.stage = "sleep",
                                   !.delays = Append(@, Backoff(b.attempt))]
             ELSE [reported EXCEPT !.attempt = @ + 1]

\* flush without the return on response.ok: an accepted request is followed
\* by the backoff and the next attempt like a failed one.
AfterFetch_NoReturnOnOk(b, outcome, throws) ==
    LET settled == [b EXCEPT !.outcomes = Append(@, outcome)]
        failed == IF outcome = "ok" THEN settled
                  ELSE [settled EXCEPT !.lastError = ErrorOf(outcome, b.attempt)]
    IN  IF b.attempt < maxRetries - 1
        THEN [failed EXCEPT !.stage = "sleep",
                            !.delays = Append(@, Backoff(b.attempt))]
        ELSE AfterLoop([failed EXCEPT !.attempt = @ + 1], throws)

\* The flush of batch b from the point where its fetch settles to its next
\* await or its end.  outcomes keeps what the endpoint did to each request.
AfterFetch(b, outcome, throws) ==
    IF outcome = "ok"
    THEN [b EXCEPT !.stage = "delivered", !.outcomes = Append(@, outcome)]
    ELSE LET failed == [b EXCEPT !.lastError = ErrorOf(outcome, b.attempt),
                                 !.outcomes = Append(@, outcome)]
         IN  IF b.attempt < maxRetries - 1
             THEN [failed EXCEPT !.stage = "sleep",
                                 !.delays = Append(@, Backoff(b.attempt))]
             ELSE AfterLoop([failed EXCEPT !.attempt = @ + 1], throws)

\* The flush of batch b from the end of its sleep to its next await: the
\* loop counter advances and the loop body runs again.
AfterSleep(b) == CallFetch([b EXCEPT !.attempt = @ + 1])

\* flush() detaching the buffer without the empty check.
hflush_NoEmptyCheck(buf, trigger) ==
    /\ hBuffer' = <<>>
    /\ batches' = Append(batches, NewBatch(buf, trigger))

\* flush() reading the buffer with slice(0), which leaves it in place.
hflush_KeepBuffer(buf, trigger) ==
    IF Len(buf) = 0
    THEN /\ hBuffer' = buf
         /\ UNCHANGED batches
    ELSE /\ hBuffer' = buf
         /\ batches' = Append(batches, NewBatch(buf, trigger))

\* flush(), up to its first await; buf is this.buffer when flush is entered.
hflush(buf, trigger) ==
    IF Len(buf) = 0
    THEN /\ hBuffer' = buf
         /\ UNCHANGED batches
    ELSE /\ hBuffer' = <<>>
         /\ batches' = Append(batches, NewBatch(buf, trigger))

\* send(record) testing the length of the buffer before it pushes.
hsend_CheckBeforePush(record) ==
    /\ hSent' = Append(hSent, record)
    /\ IF Len(hBuffer) >= hBatchSize
       THEN /\ hBuffer' = <<record>>
            /\ batches' = Append(batches, NewBatch(hBuffer, "size"))
       ELSE /\ hBuffer' = Append(hBuffer, record)
            /\ UNCHANGED batches

\* send(record) flushing only once the buffer is longer than batchSize.
hsend_Longer(record) ==
    LET pushed == Append(hBuffer, record) IN
    /\ hSent' = Append(hSent, record)
    /\ IF Len(pushed) > hBatchSize
       THEN hflush(pushed, "size")
       ELSE /\ hBuffer' = pushed
            /\ UNCHANGED batches

\* send(record)
hsend(record) ==
    LET pushed == Append(hBuffer, record) IN
    /\ hSent' = Append(hSent, record)
    /\ IF Len(pushed) >= hBatchSize
       THEN hflush(pushed, "size")
       ELSE /\ hBuffer' = pushed
            /\ UNCHANGED batches

\* new HttpTransport(options)
InitHttp ==
    /\ idCounter = 0
    /\ now = 0
    /\ secret \in {<<"k1">>}
    /\ PureIdle
    /\ SinkIdle
    /\ SignIdle
    /\ MeterIdle
    /\ endpoint \in FetchOutcomes \ {"ok"}
    /\ hBatchSize \in 1..MaxHttpBatchSize
    /\ \E opt \in {<<>>} \cup {<<n>> : n \in 0..MaxRetries} :
            maxRetries = Coalesce(opt, DefaultMaxRetries)
    /\ hasOnError \in BOOLEAN
    /\ hasInterval \in BOOLEAN
    /\ timer = hasInterval
    /\ hBuffer = <<>>
    /\ batches = <<>>
    /\ hSent = <<>>
    /\ hLastCall = "none"

\* A call of send with a record as AgentMeter builds it.
HSend ==
    /\ Len(hSent) < MaxHttpSends
    /\ hsend(UsageRecord(GenerateId(idCounter), 1, Undefined))
    /\ idCounter' = idCounter + 1
    /\ hLastCall' = "send"
    /\ UNCHANGED <<now, pureVars, sinkVars, signVars, meterVars,
                   endpoint, hBatchSize, maxRetries, hasOnError,
                   hasInterval, timer>>

\* An explicit call of flush(), by the caller or through AgentMeter.flush.
HFlush ==
    /\ hflush(hBuffer, "explicit")
    /\ hLastCall' = IF Len(hBuffer) = 0 THEN "emptyFlush" ELSE "flush"
    /\ UNCHANGED <<utilVars, pureVars, sinkVars, signVars, meterVars,
                   endpoint, hBatchSize, maxRetries,
                   hasOnError, hasInterval, timer, hSent>>

\* The interval timer fires and its callback calls flush().
TimerFires ==
    /\ timer
    /\ hflush(hBuffer, "timer")
    /\ hLastCall' = "timer"
    /\ UNCHANGED <<utilVars, pureVars, sinkVars, signVars, meterVars,
                   endpoint, hBatchSize, maxRetries,
                   hasOnError, hasInterval, timer, hSent>>

\* The fetch of a batch settles; within one run a failing request fails the
\* same way every time.
FetchSettles ==
    \E i \in 1..Len(batches) : \E outcome \in {"ok", endpoint} : \E throws \in BOOLEAN :
        /\ batches[i].stage = "fetch"
        /\ batches' = [batches EXCEPT ![i] = AfterFetch(@, outcome, throws)]
        /\ UNCHANGED <<utilVars, pureVars, sinkVars, signVars, meterVars,
                       endpoint, hBatchSize, maxRetries,
                       hasOnError, hasInterval, timer, hBuffer, hSent, hLastCall>>

\* The backoff sleep of a batch ends.
SleepEnds ==
    \E i \in 1..Len(batches) :
        /\ batches[i].stage = "sleep"
        /\ batches' = [batches EXCEPT ![i] = AfterSleep(@)]
        /\ UNCHANGED <<utilVars, pureVars, sinkVars, signVars, meterVars,
                       endpoint, hBatchSize, maxRetries,
                       hasOnError, hasInterval, timer, hBuffer, hSent, hLastCall>>

\* destroy() that also flushes what is buffered.
Destroy_Flush ==
    /\ timer' = FALSE
    /\ hflush(hBuffer, "explicit")
    /\ UNCHANGED <<utilVars, pureVars, sinkVars, signVars, meterVars,
                   endpoint, hBatchSize, maxRetries,
                   hasOnError, hasInterval, hSent, hLastCall>>

\* destroy()
Destroy ==
    /\ timer' = FALSE
    /\ UNCHANGED <<utilVars, pureVars, sinkVars, signVars, meterVars,
                   endpoint, hBatchSize, maxRetries,
                   hasOnError, hasInterval, hBuffer, batches, hSent, hLastCall>>

NextHttp ==
    \/ HSend
    \/ HFlush
    \/ TimerFires
    \/ FetchSettles
    \/ SleepEnds
    \/ Destroy

SpecHttp == InitHttp /\ [][NextHttp]_vars

\* An HttpTransport with flushIntervalMs set, on which flush() and destroy()
\* are never called; setInterval keeps calling the callback, so the timer
\* fires again and again.
InitTimer == InitHttp /\ hasInterval

NextTimer ==
    \/ HSend
    \/ TimerFires
    \/ FetchSettles
    \/ SleepEnds

SpecTimer == InitTimer /\ [][NextTimer]_vars /\ WF_vars(TimerFires)

---------------------------------------------------------------------------
(* Either sink *)

\* One sink is constructed, an AttestationTransport or an HttpTransport, and
\* the calls are made on it.
InitSinks == Init \/ InitHttp

NextSinks ==
    \/ HttpIdle /\ Next
    \/ SinkIdle /\ NextHttp

SpecSinks == InitSinks /\ [][NextSinks]_vars

---------------------------------------------------------------------------
(* Request signing (signing.ts) *)

\* The functions below look at a string character by character: here a
\* string is a sequence of one-character tokens, and a buffer a sequence of
\* bytes.
HexDigits == <<"0", "1", "2", "3", "4", "5", "6", "7", "8", "9",
               "a", "b", "c", "d", "e", "f">>
UpperHexDigits == <<"0", "1", "2", "3", "4", "5", "6", "7", "8", "9",
                    "A", "B", "C", "D", "E", "F">>

\* digest("hex"): two lower-case digits for each byte.
RECURSIVE ToHex(_)
ToHex(bytes) ==
    IF bytes = <<>>
    THEN <<>>
    ELSE <<HexDigits[(Head(bytes) \div 16) + 1], HexDigits[(Head(bytes) % 16) + 1]>>
         \o ToHex(Tail(bytes))

\* The value of a hex digit of either case, -1 for any other character.
DigitValue(c) ==
    IF \E i \in 1..16 : c \in {HexDigits[i], UpperHexDigits[i]}
    THEN (CHOOSE i \in 1..16 : c \in {HexDigits[i], UpperHexDigits[i]}) - 1
    ELSE -1

\* Buffer.from(s, "hex"): one byte for each pair of hex digits, up to the
\* first pair that is not one; a last character without a partner is dropped.
RECURSIVE FromHex(_)
FromHex(s) ==
    IF Len(s) < 2 \/ DigitValue(s[1]) < 0 \/ DigitValue(s[2]) < 0
    THEN <<>>
    ELSE <<16 * DigitValue(s[1]) + DigitValue(s[2])>> \o FromHex(SubSeq(s, 3, Len(s)))

\* The strings that are signed and the secrets they are signed with.
Payloads == {<<"hello">>, <<"tampered">>, JSONString(<<>>)}

\* createHmac("sha256", secret).update(payload): the digest as bytes.
\* HMAC-SHA256 is idealised as a digest of two bytes, one naming the secret
\* and one naming the payload, so that two digests are equal only if both
\* the secrets and the payloads are.
Hmac(key, data) ==
    << CASE key = <<"k1">> -> 161
         [] key = <<"k2">> -> 178
         [] OTHER -> 9,
       CASE data = <<"hello">> -> 195
         [] data = <<"tampered">> -> 77
         [] OTHER -> 46 >>

signPayload(payload, signingSecret) == ToHex(Hmac(signingSecret, payload))

\* crypto.timingSafeEqual(a, b): a RangeError unless the byte lengths agree.
timingSafeEqual(a, b) ==
    IF Len(a) # Len(b) THEN Throw("RangeError") ELSE Return(a = b)

\* verifySignature accepting any signature of the expected length.
verifySignature_LengthOnly(payload, signature, signingSecret) ==
    Return(Len(signPayload(payload, signingSecret)) = Len(signature))

verifySignature(payload, signature, signingSecret) ==
    LET expected == signPayload(payload, signingSecret)
    IN  IF Len(expected) # Len(signature)
        THEN Return(FALSE)
        ELSE timingSafeEqual(FromHex(expected), FromHex(signature))

\* toUpperCase() of a string of hex digits.
RECURSIVE ToUpperCase(_)
ToUpperCase(s) ==
    IF s = <<>>
    THEN <<>>
    ELSE (IF DigitValue(Head(s)) < 0
          THEN <<Head(s)>>
          ELSE <<UpperHexDigits[DigitValue(Head(s)) + 1]>>) \o ToUpperCase(Tail(s))

\* What a caller may present in place of the signature sig: sig itself, its
\* upper-case spelling, a string that is shorter or longer, the empty
\* string, and strings of the same length that hold a character that is no
\* hex digit.
Presented(sig) ==
    { sig,
      ToUpperCase(sig),
      SubSeq(sig, 1, Len(sig) - 1),
      sig \o <<"0">>,
      <<>>,
      <<"z">> \o Tail(sig),
      SubSeq(sig, 1, Len(sig) - 1) \o <<"g">> }

InitSign ==
    /\ idCounter = 0
    /\ now = 0
    /\ secret \in {<<"k1">>}
    /\ PureIdle
    /\ SinkIdle
    /\ HttpIdle
    /\ MeterIdle
    /\ sgPayload \in Payloads
    /\ sgSecret \in Secrets
    /\ sgSignature = <<>>
    /\ sgResult = <<>>

\* The agent signs its payload.
CallSignPayload ==
    /\ sgSignature = <<>>
    /\ sgSignature' = <<signPayload(sgPayload, sgSecret)>>
    /\ UNCHANGED <<utilVars, pureVars, sinkVars, httpVars, meterVars, sgPayload, sgSecret,
                   sgResult>>

\* Something else than the signature is presented.
PresentSignature ==
    /\ sgSignature # <<>>
    /\ sgResult = <<>>
    /\ sgSignature[1] = signPayload(sgPayload, sgSecret)
    /\ \E s \in Presented(sgSignature[1]) \ {sgSignature[1]} : sgSignature' = <<s>>
    /\ UNCHANGED <<utilVars, pureVars, sinkVars, httpVars, meterVars, sgPayload, sgSecret,
                   sgResult>>

\* The service verifies what was presented against a payload and a secret.
CallVerifySignature ==
    /\ sgSignature # <<>>
    /\ sgResult = <<>>
    /\ \E p \in Payloads, k \in Secrets :
            sgResult' = <<[payload |-> p, secret |-> k,
                           result |-> verifySignature(p, sgSignature[1], k)]>>
    /\ UNCHANGED <<utilVars, pureVars, sinkVars, httpVars, meterVars, sgPayload, sgSecret,
                   sgSignature>>

NextSign ==
    \/ CallSignPayload
    \/ PresentSignature
    \/ CallVerifySignature

SpecSign == InitSign /\ [][NextSign]_vars

---------------------------------------------------------------------------
(* AgentMeter (meter.ts) *)

\* A value is truthy unless it is undefined or the empty string.
Truthy(s) == s # Undefined /\ s # <<>>

\* An option of RouteOptions that may be a value or a function of the
\* request: its type, and its value or what the function returns for req.
Unset(v) == [type |-> "undefined", value |-> v]
Value(t, v) == [type |-> t, value |-> v]
Function(v) == [type |-> "function", value |-> v]

\* defaultIdentifyAgent taking the empty header for an identifier.
defaultIdentifyAgent_EmptyIsAgent(rq) ==
    IF rq.xAgentId = Undefined
    THEN <<>>
    ELSE <<[agentId |-> rq.xAgentId, name |-> rq.xAgentName]>>

\* defaultIdentifyAgent(req): <<>> for undefined, else <<the identity>>.
defaultIdentifyAgent(rq) ==
    IF ~Truthy(rq.xAgentId)
    THEN <<>>
    ELSE <<[agentId |-> rq.xAgentId, name |-> rq.xAgentName]>>

\* The identifyAgent of the tests:
\* (r) => ({ agentId: r.headers["authorization"], name: "custom-agent" })
customIdentifyAgent(rq) ==
    <<[agentId |-> rq.authorization, name |-> <<"custom-agent">>]>>

\* The beforeEmit hooks of the tests: one returns the record with its
\* metadata replaced, one returns undefined.
beforeEmit(hook, record) ==
    IF hook = "enrich" THEN <<[record EXCEPT !.metadata = <<"enriched">>]>> ELSE <<>>

NoCalls == [skip |-> 0, identifyAgent |-> 0, units |-> 0, beforeEmit |-> 0]

\* finish() returning before it builds a record, after the calls c.
Returns(c) ==
    [threw |-> FALSE, calls |-> c, ids |-> 0, hookArg |-> <<>>, hookRet |-> <<>>,
     sent |-> <<>>]

\* The skip check ignoring what a skip predicate returns.
skipped_FlagOnly(opts) == opts.skip = Value("boolean", TRUE)

\* options?.skip === true, or options.skip is a function that holds of req.
skipped(opts) == opts.skip = Value("boolean", TRUE) \/ opts.skip = Function(TRUE)

\* The gate letting the status 400 through.
gated_Above400(cfg, statusCode) == cfg.meterErrors # <<TRUE>> /\ statusCode > 400

\* !this.config.meterErrors && statusCode >= 400
gated(cfg, statusCode) == cfg.meterErrors # <<TRUE>> /\ statusCode >= 400

\* this.config.identifyAgent ?? defaultIdentifyAgent, applied to req.
identify(cfg, rq) ==
    IF cfg.identifyAgent = "undefined"
    THEN defaultIdentifyAgent(rq)
    ELSE customIdentifyAgent(rq)

\* No signature is ever verified.
signatureChecked_Never(cfg, requestSignature) == FALSE

\* Every request is verified once a secret is configured.
signatureChecked_WheneverSecret(cfg, requestSignature) == Truthy(cfg.signingSecret)

\* this.config.signingSecret && requestSignature
signatureChecked(cfg, requestSignature) ==
    Truthy(cfg.signingSecret) /\ Truthy(requestSignature)

\* typeof req.body === "string" ? req.body : JSON.stringify(req.body ?? "")
BodyText(rq) == IF rq.body = Undefined THEN JSONString(<<>>) ELSE rq.body

\* options?.pricing ?? this.config.defaultPricing ?? "per-call"
pricingModel(opts, cfg) ==
    IF opts.pricing # Undefined THEN opts.pricing
    ELSE IF cfg.defaultPricing # Undefined THEN cfg.defaultPricing
    ELSE <<"per-call">>

\* The end of finish() sending the record that was given to the hook.
emit_SendsHookArgument(cfg, usageRecord, c) ==
    IF cfg.beforeEmit = "undefined"
    THEN [Returns(c) EXCEPT !.ids = 1, !.sent = <<usageRecord>>]
    ELSE [threw |-> FALSE, calls |-> [c EXCEPT !.beforeEmit = 1], ids |-> 1,
          hookArg |-> <<usageRecord>>,
          hookRet |-> <<beforeEmit(cfg.beforeEmit, usageRecord)>>,
          sent |-> IF beforeEmit(cfg.beforeEmit, usageRecord) = <<>>
                   THEN <<>>
                   ELSE <<usageRecord>>]

\* The end of finish(), after the calls c: the record goes through
\* this.config.beforeEmit when it is set, and what comes out of it, if
\* anything, is passed to this.transport.send.
emit(cfg, usageRecord, c) ==
    IF cfg.beforeEmit = "undefined"
    THEN [Returns(c) EXCEPT !.ids = 1, !.sent = <<usageRecord>>]
    ELSE [threw |-> FALSE, calls |-> [c EXCEPT !.beforeEmit = 1], ids |-> 1,
          hookArg |-> <<usageRecord>>,
          hookRet |-> <<beforeEmit(cfg.beforeEmit, usageRecord)>>,
          sent |-> beforeEmit(cfg.beforeEmit, usageRecord)]

\* The closure finish of record(req, res, options), run when the identifier
\* counter stands at n and the clock at t: whether it threw, the callbacks
\* it invoked, the identifiers it drew, and the records it passed to
\* this.transport.send.  Of the members of the record, operation, method,
\* path and durationMs are left out.
finishClosure(cfg, rq, rs, opts, n, t) ==
    LET c1 == IF opts.skip.type = "function" THEN [NoCalls EXCEPT !.skip = 1] ELSE NoCalls
        statusCode == Coalesce(rs.statusCode, 0)
        agent == identify(cfg, rq)
        c2 == [c1 EXCEPT !.identifyAgent = 1]
        requestSignature == rq.xAgentSignature
        verified == verifySignature(BodyText(rq), requestSignature, cfg.signingSecret)
        c3 == IF opts.units.type = "function" THEN [c2 EXCEPT !.units = 1] ELSE c2
        usageRecord ==
            [id |-> GenerateId(n),
             timestamp |-> Timestamp(t),
             serviceId |-> cfg.serviceId,
             agent |-> agent[1],
             units |-> IF opts.units.type = "undefined" THEN 1 ELSE opts.units.value,
             unitType |-> IF opts.unitType = Undefined THEN <<"request">> ELSE opts.unitType,
             pricingModel |-> pricingModel(opts, cfg),
             statusCode |-> statusCode,
             requestSignature |-> requestSignature,
             metadata |-> opts.metadata]
    IN  IF skipped(opts)
        THEN Returns(IF opts.skip = Value("boolean", TRUE) THEN NoCalls ELSE c1)
        ELSE IF gated(cfg, statusCode) THEN Returns(c1)
        ELSE IF agent = <<>> THEN Returns(c2)
        ELSE IF signatureChecked(cfg, requestSignature) /\ verified.threw
        THEN [Returns(c2) EXCEPT !.threw = TRUE]
        ELSE IF signatureChecked(cfg, requestSignature) /\ ~verified.value
        THEN Returns(c2)
        ELSE emit(cfg, usageRecord, c3)

\* The configurations: meterErrors is <<>> when unset, else <<FALSE>> or <<TRUE>>.
Configs ==
    [serviceId : {ServiceId},
     meterErrors : {<<>>, <<FALSE>>, <<TRUE>>},
     defaultPricing : {Undefined, <<"per-minute">>},
     signingSecret : {Undefined, <<"k1">>},
     identifyAgent : {"undefined", "custom"},
     beforeEmit : {"undefined", "enrich", "drop"}]

\* What an agent holding the secret k1 may send as x-agent-signature with
\* the body b: nothing, the empty string, the signature of b, its upper-case
\* spelling, the signature of another body, a shorter string, and a string
\* of the same length with a character that is no hex digit.
SignatureHeaders(b) ==
    LET sig == signPayload(b, <<"k1">>)
    IN  { Undefined, <<>>, sig, ToUpperCase(sig), signPayload(<<"tampered">>, <<"k1">>),
          SubSeq(sig, 1, Len(sig) - 1), <<"z">> \o Tail(sig) }

\* The requests: the headers x-agent-id, x-agent-name, authorization and
\* x-agent-signature, and a body that is a string.
Requests ==
    { [xAgentId |-> h[1], xAgentName |-> Undefined, authorization |-> h[2],
       xAgentSignature |-> sg, body |-> <<"hello">>] :
        h \in { <<Undefined, Undefined>>, <<<<>>, Undefined>>,
                <<<<"bot-1">>, Undefined>>, <<Undefined, <<"bot-456">>>> },
        sg \in SignatureHeaders(<<"hello">>) }

\* res.statusCode: <<>> when undefined.
StatusCodes == {<<>>, <<399>>, <<400>>}

Responses == [statusCode : StatusCodes, on : BOOLEAN]

\* The route options: skip unset, true, or a predicate that holds or fails
\* for the request; units unset, a number given with unitType and pricing,
\* or a function of the request.
RouteOptions ==
    { [skip |-> sk, units |-> u[1], unitType |-> u[2], pricing |-> u[3],
       metadata |-> Undefined] :
        sk \in { Unset(FALSE), Value("boolean", TRUE), Function(TRUE), Function(FALSE) },
        u \in { <<Unset(0), Undefined, Undefined>>,
                <<Value("number", 5), <<"token">>, <<"per-unit">>>>,
                <<Function(42), <<"token">>, Undefined>> } }

\* new AgentMeter(config), and a request about to be handled.
InitMeter ==
    /\ idCounter = 0
    /\ now = 0
    /\ secret \in {<<"k1">>}
    /\ PureIdle
    /\ SinkIdle
    /\ HttpIdle
    /\ SignIdle
    /\ config \in Configs
    /\ req \in Requests
    /\ mRes \in Responses
    /\ options \in RouteOptions
    /\ entry = "none"
    /\ finish = "none"
    /\ calls = NoCalls
    /\ hookArg = <<>>
    /\ hookRet = <<>>
    /\ mSent = <<>>
    /\ nextCalls = 0

\* finish() passing each record to send twice.
RunFinish_SendTwice ==
    LET out == finishClosure(config, req, mRes, options, idCounter, now)
    IN  /\ finish' = IF out.threw THEN "threw" ELSE "ran"
        /\ calls' = out.calls
        /\ hookArg' = out.hookArg
        /\ hookRet' = out.hookRet
        /\ mSent' = mSent \o out.sent \o out.sent
        /\ idCounter' = idCounter + out.ids

\* finish() is run.
RunFinish ==
    LET out == finishClosure(config, req, mRes, options, idCounter, now)
    IN  /\ finish' = IF out.threw THEN "threw" ELSE "ran"
        /\ calls' = out.calls
        /\ hookArg' = out.hookArg
        /\ hookRet' = out.hookRet
        /\ mSent' = mSent \o out.sent
        /\ idCounter' = idCounter + out.ids

\* record running finish at once, whether or not res.on is defined.
record_FinishAtCall == RunFinish

\* record(req, res, options): finish is registered on res when res.on is
\* defined, and run at once when it is not.
record ==
    IF mRes.on
    THEN /\ finish' = "listening"
         /\ UNCHANGED <<idCounter, calls, hookArg, hookRet, mSent>>
    ELSE RunFinish

\* The middleware of express(options): this.record(req, res, options), then
\* next(), which an exception of record does not reach.
Express ==
    /\ entry = "none"
    /\ entry' = "express"
    /\ record
    /\ nextCalls' = IF finish' = "threw" THEN nextCalls ELSE nextCalls + 1
    /\ UNCHANGED <<now, pureVars, sinkVars, httpVars, signVars, config, req, mRes, options>>

\* The handler of the route sets the status of the response.
SetStatusCode ==
    /\ finish = "listening"
    /\ \E c \in StatusCodes \ {<<>>} : mRes' = [mRes EXCEPT !.statusCode = c]
    /\ UNCHANGED <<utilVars, pureVars, sinkVars, httpVars, signVars, config, req, options,
                   entry, finish, calls, hookArg, hookRet, mSent, nextCalls>>

\* res emits "finish".
FinishEvent ==
    /\ finish = "listening"
    /\ RunFinish
    /\ UNCHANGED <<now, pureVars, sinkVars, httpVars, signVars, config, req, mRes, options,
                   entry, nextCalls>>

NextMeter ==
    \/ Express
    \/ SetStatusCode
    \/ FinishEvent

SpecMeter == InitMeter /\ [][NextMeter]_vars

---------------------------------------------------------------------------
(* Properties of the exported functions *)

\* The attestation handed to verifyAttestation, once it was called.
Verified == verdict # "none"

SameEnvelope(a, c) ==
    /\ c.batchId = a.batchId
    /\ c.timestamp = a.timestamp
    /\ c.serviceId = a.serviceId

\* c is a with one member of exactly one record changed.
OneRecordChanged(a, c) ==
    /\ SameEnvelope(a, c)
    /\ c.merkleRoot = a.merkleRoot
    /\ c.signature = a.signature
    /\ c.recordCount = a.recordCount
    /\ Len(c.records) = Len(a.records)
    /\ Cardinality({k \in 1..Len(a.records) : c.records[k] # a.records[k]}) = 1

OnlyMemberChanged(a, c, member) ==
    /\ c # a
    /\ \A m \in DOMAIN a : m # member => c[m] = a[m]

\* C1: verifyAttestation(buildAttestation(records, serviceId, secret), secret)
\* is true for every non-empty batch, of odd and even size.
C1_BuildThenVerify ==
    \A i \in 1..Len(built) :
        /\ VerdictOf(verifyAttestation(built[i], secret)) = "true"
        /\ (Verified /\ cand = <<built[i]>> /\ vsecret = secret) => verdict = "true"

C1_Witness ==
    /\ verdict = "true"
    /\ tamper = "unmodified"
    /\ Len(cand[1].records) = 3

\* C2: a built attestation with one member of one record, the merkleRoot, the
\* signature or the recordCount changed is rejected under the original
\* secret, and the unchanged attestation is rejected under another secret.
C2_SingleChangeRejected ==
    Verified =>
        \A i \in 1..Len(built) :
            LET a == built[i]
                c == cand[1]
            IN  /\ (/\ vsecret = secret
                    /\ \/ OneRecordChanged(a, c)
                       \/ OnlyMemberChanged(a, c, "merkleRoot")
                       \/ OnlyMemberChanged(a, c, "signature")
                       \/ OnlyMemberChanged(a, c, "recordCount"))
                   => verdict = "false"
                /\ (c = a /\ vsecret # secret) => verdict = "false"

C2_Witness ==
    /\ verdict = "false"
    /\ tamper = "record"
    /\ vsecret = secret
    /\ \E i \in 1..Len(built) : OneRecordChanged(built[i], cand[1])
    /\ Len(cand[1].records) = 3

\* C3: an attestation whose record list differs from the attested one, with
\* recordCount set to the new length and batchId, timestamp, merkleRoot and
\* signature kept, is rejected.
C3_BatchManipulationRejected ==
    Verified =>
        \A i \in 1..Len(built) :
            LET a == built[i]
                c == cand[1]
            IN  (/\ vsecret = secret
                 /\ SameEnvelope(a, c)
                 /\ c.merkleRoot = a.merkleRoot
                 /\ c.signature = a.signature
                 /\ c.records # a.records
                 /\ c.recordCount = Len(c.records))
                => verdict = "false"

\* C4: verifyAttestation returns a boolean for every attestation, and false
\* for an attestation with no records and recordCount 0.
C4_VerifyNeverThrows ==
    /\ verdict # "threw"
    /\ (Verified /\ cand[1].records = <<>>) => verdict = "false"

C4_Witness ==
    /\ verdict = "false"
    /\ cand[1].records = <<>>
    /\ cand[1].recordCount = 0

\* C5: buildMerkleRoot of no leaves and buildAttestation of no records raise
\* their errors and return nothing.
C5_EmptyInputThrows ==
    /\ (rootRes # <<>> /\ leaves = <<>>) =>
            rootRes[1] = Throw("Cannot build Merkle root from empty leaves")
    /\ (rootRes # <<>> /\ leaves # <<>>) => ~rootRes[1].threw
    /\ records = <<>> => built = <<>>
    /\ buildThrew => records = <<>>

C5_Witness ==
    /\ buildThrew
    /\ leaves = <<>>
    /\ rootRes # <<>>
    /\ rootRes[1].threw

\* The tree of height h over list, top down: a subtree that holds no node of
\* its right half is the pair of its left half with itself.
RECURSIVE RefNode(_, _)
RefNode(list, h) ==
    IF h = 0 THEN list[1]
    ELSE LET half == 2 ^ (h - 1) IN
         IF Len(list) <= half
         THEN hashPair(RefNode(list, h - 1), RefNode(list, h - 1))
         ELSE hashPair(RefNode(SubSeq(list, 1, half), h - 1),
                       RefNode(SubSeq(list, half + 1, Len(list)), h - 1))

Height(n) == CHOOSE h \in 0..n : 2 ^ h >= n /\ \A g \in 0..(h - 1) : 2 ^ g < n

\* C6: buildMerkleRoot is the reference construction: one leaf is the root,
\* else adjacent nodes are paired left to right level by level, the last node
\* of an odd level with itself; [a,b,c] gives H(H(a,b),H(c,c)).
C6_MerkleRootIsReference ==
    (rootRes # <<>> /\ leaves # <<>>) =>
        /\ rootRes[1] = Return(RefNode(leaves, Height(Len(leaves))))
        /\ Len(leaves) = 1 => rootRes[1].value = leaves[1]
        /\ Len(leaves) = 2 => rootRes[1].value = hashPair(leaves[1], leaves[2])
        /\ Len(leaves) = 3 =>
              rootRes[1].value = hashPair(hashPair(leaves[1], leaves[2]),
                                          hashPair(leaves[3], leaves[3]))

C6_Witness ==
    /\ rootRes # <<>>
    /\ Len(leaves) = 5
    /\ leaves[4] # leaves[5]
    /\ ~rootRes[1].threw

\* C7: two calls of buildAttestation, also over the same records with the
\* same secret and serviceId, give different batchId values.
C7_BatchIdsDiffer ==
    \A i, j \in 1..Len(built) : i # j => built[i].batchId # built[j].batchId

C7_Witness ==
    /\ Len(built) = 2
    /\ built[1].records = built[2].records
    /\ built[1].timestamp = built[2].timestamp
    /\ built[1].merkleRoot = built[2].merkleRoot

---------------------------------------------------------------------------
(* Properties of AttestationTransport *)

RECURSIVE RecordsOf(_)
RecordsOf(atts) ==
    IF atts = <<>> THEN <<>> ELSE Head(atts).records \o RecordsOf(Tail(atts))

\* The records of the attestations handed to onAttestation, in hand-over order.
AttestedRecords == RecordsOf(handed)

\* C8: every attestation passed to onAttestation has recordCount =
\* len(records) >= 1, the Merkle root of the keyed leaves of its records and
\* the signature over batchId:timestamp:merkleRoot, so it verifies under the
\* transport's secret; flush never raises the empty-batch error.
C8_HandedAttestationsVerify ==
    /\ ~flushThrew
    /\ \A i \in 1..Len(handed) :
        LET a == handed[i]
            lvs == [k \in 1..Len(a.records) |-> hashRecord(a.records[k], secret)]
        IN  /\ a.recordCount = Len(a.records)
            /\ a.recordCount >= 1
            /\ a.merkleRoot = RefNode(lvs, Height(Len(lvs)))
            /\ a.signature = HmacSha256Hex(secret,
                    a.batchId \o <<":">> \o a.timestamp \o <<":">> \o a.merkleRoot)
            /\ VerdictOf(verifyAttestation(a, secret)) = "true"

C8_Witness ==
    /\ lastCall = "flush"
    /\ buffer = <<>>
    /\ \E i \in 1..Len(handed) : handed[i].recordCount = 3
    /\ \E i \in 1..Len(flushes) : flushes[i] = "done"

\* C9: under every interleaving of send, size-triggered flush, explicit
\* flush and pending onAttestation handlers, no record is in two
\* attestations, the attested records followed by the buffered ones are the
\* sent ones in send order, and after a flush that follows the last send
\* every sent record is in exactly one attestation.
C9_EachRecordAttestedOnce ==
    /\ AttestedRecords \o buffer = sent
    /\ \A m, n \in 1..Len(AttestedRecords) :
            m # n => AttestedRecords[m] # AttestedRecords[n]
    /\ lastCall = "flush" =>
            /\ buffer = <<>>
            /\ \A k \in 1..Len(sent) :
                Cardinality({m \in 1..Len(AttestedRecords) :
                                AttestedRecords[m] = sent[k]}) = 1

C9_Witness ==
    /\ Len(sent) = 3
    /\ lastCall = "flush"
    /\ Len(handed) = 2
    /\ flushes[1] = "handler"
    /\ flushes[2] = "handler"

\* C10: with a delegate, every send(record) passes the record to
\* delegate.send once, within the send call, flush or no flush: the delegate
\* receives the records of the send calls in their order.
C10_DelegateReceivesSends ==
    /\ hasDelegate => delegateSent = sent
    /\ ~hasDelegate => delegateSent = <<>>

C10_Witness ==
    /\ hasDelegate
    /\ Len(delegateSent) = 3
    /\ Len(handed) = 1
    /\ handed[1].recordCount = 2
    /\ Len(buffer) = 1

\* The flushes of the transport whose stage is in S.
FlushesIn(S) == {i \in 1..Len(flushes) : flushes[i] \in S}

\* C11 as stated: every flush that detached a batch called onAttestation
\* once, and with a delegate the delegate's flush has been called for every
\* flush whose handler has completed, whether it fulfilled or rejected.
C11_DelegateFlushWhateverOutcome ==
    /\ Len(handed) = Len(flushes)
    /\ hasDelegate =>
            delegateFlushes = Cardinality(FlushesIn({"delegateFlush", "done", "rejected"}))

\* C11, amended: every flush that detached a batch called onAttestation once
\* with its attestation; the flush stays pending while the handler is
\* pending; when the handler fulfils, the delegate's flush is called once and
\* the flush completes only after it; when the handler rejects, the flush is
\* rejected and the delegate's flush is not called for it.
C11_DelegateFlushAfterHandlerFulfils ==
    /\ [](/\ Len(handed) = Len(flushes)
          /\ \A i, j \in 1..Len(handed) :
                i # j => handed[i].batchId # handed[j].batchId
          /\ delegateFlushes =
                IF hasDelegate
                THEN Cardinality(FlushesIn({"delegateFlush", "done"}))
                ELSE 0)
    /\ [][\A i \in 1..Len(flushes) :
            /\ flushes'[i] = "done" => flushes[i] \in {"delegateFlush", "done"}
            /\ flushes'[i] = "delegateFlush" => flushes[i] \in {"handler", "delegateFlush"}
            /\ flushes'[i] = "rejected" => flushes[i] \in {"handler", "rejected"}
            /\ flushes'[i] = "handler" => flushes[i] = "handler"]_vars

C11_Witness ==
    /\ hasDelegate
    /\ Len(flushes) = 2
    /\ flushes[1] = "rejected"
    /\ flushes[2] = "done"
    /\ delegateFlushes = 1

\* C12: flush on an empty buffer is a no-op on both sinks.  An explicit
\* HttpTransport.flush that finds the buffer empty detaches no batch, makes
\* no delivery call and leaves the sink as it was; an
\* AttestationTransport.flush that finds the buffer empty calls neither
\* onAttestation nor the delegate's flush and leaves the sink as it was.
\* After a flush the buffer is empty until the next send, so a second flush
\* with no send in between is such a no-op.
C12_EmptyFlushIsNoOp ==
    /\ [](hLastCall \in {"flush", "emptyFlush"} => hBuffer = <<>>)
    /\ [](lastCall = "flush" => buffer = <<>>)
    /\ [][/\ (HFlush /\ hBuffer = <<>>) =>
                UNCHANGED <<hBuffer, batches, hSent, timer>>
          /\ (Flush /\ buffer = <<>>) =>
                UNCHANGED <<buffer, handed, flushes, flushThrew, delegateSent,
                            delegateFlushes, sent>>]_vars

\* A second explicit flush of an HttpTransport, with no send after the first.
C12_Witness ==
    /\ hLastCall = "emptyFlush"
    /\ Len(hSent) = 1
    /\ Len(batches) = 1
    /\ batches[1].trigger = "explicit"
    /\ Len(batches[1].payloads) = 1

---------------------------------------------------------------------------
(* Properties of HttpTransport *)

\* The records of the batches detached so far, in detach order.
Batched == RecordsOf(batches)

\* No request of the run has failed so far.
EndpointSucceeds == \A i \in 1..Len(batches) : batches[i].lastError = Undefined

\* The batches a flush with the given trigger detached.
BatchesBy(trigger) == {i \in 1..Len(batches) : batches[i].trigger = trigger}

Failures(b) == {k \in 1..Len(b.outcomes) : b.outcomes[k] # "ok"}

\* C14: a failed request (rejected fetch or response that is not ok) is
\* retried and the first success ends the flush.  When the k-th request of a
\* batch is the first one accepted, k <= maxRetries, exactly k requests were
\* made for the batch, all carrying the batch, and onError is not called;
\* while fewer than maxRetries requests have failed and none succeeded, the
\* flush is still sleeping or fetching.
C14_RetryUntilFirstSuccess ==
    \A i \in 1..Len(batches) :
        LET b == batches[i] IN
        /\ \A k \in 1..Len(b.outcomes) :
                b.outcomes[k] = "ok" =>
                    /\ k <= maxRetries
                    /\ Failures(b) = 1..(k - 1)
                    /\ Len(b.payloads) = k
                    /\ Len(b.delays) = k - 1
                    /\ b.onError = <<>>
                    /\ b.stage = "delivered"
        /\ \A k \in 1..Len(b.payloads) : b.payloads[k] = Body(b.records)
        /\ (Failures(b) = 1..Len(b.outcomes) /\ Len(b.outcomes) < maxRetries) =>
                \/ b.stage = "fetch" /\ Len(b.payloads) = Len(b.outcomes) + 1
                \/ b.stage = "sleep" /\ Len(b.payloads) = Len(b.outcomes)
                                     /\ Len(b.outcomes) >= 1

\* fail, fail, succeed under the default maxRetries.
C14_Witness ==
    /\ maxRetries = DefaultMaxRetries
    /\ hasOnError
    /\ Len(batches) = 1
    /\ batches[1].outcomes = <<endpoint, endpoint, "ok">>
    /\ Len(batches[1].payloads) = 3
    /\ batches[1].onError = <<>>
    /\ batches[1].stage = "delivered"

\* The flush of batch b has ended.
Ended(b) == b.stage \in {"delivered", "gaveUp", "rejected"}

\* Record r is in the sequence recs.
In(r, recs) == \E k \in 1..Len(recs) : recs[k] = r

\* C15: when all maxRetries >= 1 requests of a batch have failed, the flush
\* has ended after exactly maxRetries requests; if onError is configured it
\* was called exactly once, with the error of the last request and the batch
\* as detached (a run of the sent records, in send order); no record of the
\* batch is in the buffer or in another batch.  onError is never called for
\* a batch before its maxRetries-th request has failed.
C15_AllAttemptsFailed ==
    /\ Batched \o hBuffer = hSent
    /\ \A i \in 1..Len(batches) :
        LET b == batches[i] IN
        /\ (maxRetries >= 1 /\ Len(b.outcomes) = maxRetries
                /\ Failures(b) = 1..maxRetries) =>
                /\ Ended(b) /\ b.stage # "delivered"
                /\ Len(b.payloads) = maxRetries
                /\ \A k \in 1..maxRetries : b.payloads[k] = Body(b.records)
                /\ b.onError =
                        IF hasOnError
                        THEN <<[error |-> ErrorOf(b.outcomes[maxRetries], maxRetries - 1),
                                batch |-> b.records]>>
                        ELSE <<>>
                /\ \A k \in 1..Len(b.records) :
                    /\ ~In(b.records[k], hBuffer)
                    /\ \A j \in 1..Len(batches) :
                            j # i => ~In(b.records[k], batches[j].records)
        /\ b.onError # <<>> =>
                (Len(b.outcomes) = maxRetries /\ Failures(b) = 1..maxRetries)

C15_Witness ==
    /\ hasOnError
    /\ maxRetries = 2
    /\ Len(hSent) = 2
    /\ Len(batches) = 1
    /\ Len(batches[1].records) = 2
    /\ Len(batches[1].payloads) = 2
    /\ Len(batches[1].onError) = 1
    /\ batches[1].stage = "gaveUp"
    /\ hBuffer = <<>>

\* C16: the batch of a flush in flight is closed to later sends.  Every
\* request made for a batch, first attempt or retry, carries the records the
\* flush detached, in order, and so does the batch passed to onError; a
\* record sent after the detach is in the buffer or in a later batch, never
\* in the batch in flight.
C16_InFlightBatchIsolated ==
    /\ Batched \o hBuffer = hSent
    /\ \A i \in 1..Len(batches) :
        LET b == batches[i] IN
        /\ \A k \in 1..Len(b.payloads) : b.payloads[k] = b.payloads[1]
        /\ b.payloads # <<>> => b.payloads[1] = Body(b.records)
        /\ \A k \in 1..Len(b.onError) : b.onError[k].batch = b.records
        /\ \A k \in 1..Len(hBuffer) : ~In(hBuffer[k], b.records)
        /\ \A j \in (i + 1)..Len(batches) :
                \A k \in 1..Len(batches[j].records) :
                    ~In(batches[j].records[k], b.records)

\* The second request of a batch is awaiting its response while a record
\* sent after the detach sits in the buffer.
C16_Witness ==
    /\ hBatchSize = 2
    /\ Len(batches) = 1
    /\ batches[1].stage = "fetch"
    /\ Len(batches[1].payloads) = 2
    /\ Len(hBuffer) = 1
    /\ hLastCall = "send"

\* C17: under every interleaving of send, size-triggered, timer-driven and
\* explicit flush with requests in flight, the batches followed by the
\* buffer are the sent records in send order, no record is in two batches or
\* twice in one, and after a flush (explicit or by the timer) that follows
\* the last send the buffer is empty and every sent record is in exactly one
\* batch.
C17_EachRecordInOneBatch ==
    /\ Batched \o hBuffer = hSent
    /\ \A m, n \in 1..Len(Batched) : m # n => Batched[m] # Batched[n]
    /\ \A i \in 1..Len(batches) : batches[i].records # <<>>
    /\ hLastCall \in {"flush", "emptyFlush", "timer"} =>
            /\ hBuffer = <<>>
            /\ \A k \in 1..Len(hSent) :
                Cardinality({m \in 1..Len(Batched) : Batched[m] = hSent[k]}) = 1

\* Two sends, the first detached by the timer and the second by an explicit
\* flush while the first batch is still in flight.
C17_Witness ==
    /\ hBatchSize = 2
    /\ Len(hSent) = 2
    /\ Len(batches) = 2
    /\ batches[1].trigger = "timer"
    /\ batches[2].trigger = "explicit"
    /\ ~Ended(batches[1])
    /\ hLastCall = "flush"

\* Batch b was accepted by the endpoint or passed to onError.
HandedOff(b) == b.stage = "delivered" \/ b.onError # <<>>

\* The promise of the flush that detached b is fulfilled.
Fulfilled(b) == b.stage \in {"delivered", "gaveUp"}

C20_DestroyOnlyClearsTimer ==
    /\ [](timer => hasInterval)
    /\ [][(timer /\ ~timer') => UNCHANGED <<hBuffer, batches, hSent>>]_vars
    /\ [][(~timer /\ Destroy) => UNCHANGED vars]_vars
    /\ [][~timer =>
            /\ ~timer'
            /\ BatchesBy("timer")' = BatchesBy("timer")
            /\ hBuffer' # hBuffer =>
                    \/ hSent' # hSent
                    \/ /\ Len(batches') = Len(batches) + 1
                       /\ batches'[Len(batches')].trigger = "explicit"]_vars

\* The timer detached a first batch, destroy was called, and the record sent
\* since stays in the buffer.
C20_Witness ==
    /\ hasInterval
    /\ ~timer
    /\ hBatchSize = 2
    /\ Len(batches) = 1
    /\ batches[1].trigger = "timer"
    /\ Len(hBuffer) = 1

---------------------------------------------------------------------------
(* Properties of request signing *)

\* The call of verifySignature that was made, and what it returned.
Verification == sgResult[1]
Rejected(call) == ~call.result.threw /\ call.result.value = FALSE
Accepted(call) == ~call.result.threw /\ call.result.value = TRUE

\* The signature presented is the one signPayload made of the agent's payload
\* under the agent's secret.
Untouched == sgSignature = <<signPayload(sgPayload, sgSecret)>>

\* C30: verifySignature(payload, signPayload(payload, secret), secret) is
\* true for every payload and secret; verifySignature is false when the
\* payload differs from the signed one, when the length of the signature
\* differs from the expected length, and when the secret differs.
C30_SignRoundTripAndRejection ==
    sgResult # <<>> =>
        /\ sgSignature = <<signPayload(Verification.payload, Verification.secret)>>
                => Accepted(Verification)
        /\ Untouched /\ Verification.payload # sgPayload => Rejected(Verification)
        /\ Untouched /\ Verification.secret # sgSecret => Rejected(Verification)
        /\ Len(sgSignature[1])
                # Len(signPayload(Verification.payload, Verification.secret))
                => Rejected(Verification)

\* A signature was verified against the payload it signs under another secret.
C30_Witness ==
    /\ sgResult # <<>>
    /\ Untouched
    /\ Verification.payload = sgPayload
    /\ Verification.secret # sgSecret
    /\ Rejected(Verification)

---------------------------------------------------------------------------
(* Properties of AgentMeter *)

\* finish() has been run for the request.
Finished == finish \in {"ran", "threw"}

\* The checks of eligibility, on the request, the response as it stands, the
\* route options and the configuration.
Skipped == options.skip \in {Value("boolean", TRUE), Function(TRUE)}
ErrorGated == config.meterErrors # <<TRUE>> /\ Coalesce(mRes.statusCode, 0) >= 400
Identity == identify(config, req)
SignatureVerified ==
    LET v == verifySignature(BodyText(req), req.xAgentSignature, config.signingSecret)
    IN  ~v.threw /\ v.value
SignatureRefused ==
    /\ config.signingSecret # Undefined
    /\ Truthy(req.xAgentSignature)
    /\ ~SignatureVerified
DroppedByHook == config.beforeEmit = "drop"
Eligible ==
    /\ ~Skipped
    /\ ~ErrorGated
    /\ Identity # <<>>
    /\ ~SignatureRefused
    /\ ~DroppedByHook

\* C21: send is invoked exactly once for a request that passes every check
\* of eligibility, when res emits "finish" or at once when res.on is not
\* defined, and never otherwise; without route options and defaultPricing
\* the record has units 1, pricingModel "per-call" and unitType "request";
\* the pricing of the route overrides defaultPricing, which overrides
\* "per-call".
C21_OneSendPerEligibleRequest ==
    /\ ~Finished => mSent = <<>>
    /\ Finished => Len(mSent) = IF Eligible THEN 1 ELSE 0
    /\ entry = "express" => Finished \/ (mRes.on /\ finish = "listening")
    /\ \A i \in 1..Len(mSent) :
        /\ options.units.type = "undefined" => mSent[i].units = 1
        /\ options.unitType = Undefined => mSent[i].unitType = <<"request">>
        /\ options.pricing # Undefined => mSent[i].pricingModel = options.pricing
        /\ options.pricing = Undefined /\ config.defaultPricing # Undefined
                => mSent[i].pricingModel = config.defaultPricing
        /\ options.pricing = Undefined /\ config.defaultPricing = Undefined
                => mSent[i].pricingModel = <<"per-call">>

\* The record of an eligible request was sent when res emitted "finish",
\* priced by the route although the configuration has a defaultPricing.
C21_Witness ==
    /\ mRes.on
    /\ finish = "ran"
    /\ Eligible
    /\ Len(mSent) = 1
    /\ config.defaultPricing # Undefined
    /\ options.pricing # Undefined
    /\ mSent[1].pricingModel = options.pricing

\* C22: a request for which the identification function yields no identity
\* (the default function: x-agent-id absent or empty) produces no record,
\* whatever the status code, the route options, the signing configuration
\* and the beforeEmit hook are.
C22_NoIdentityNoRecord ==
    /\ Identity = <<>> => mSent = <<>>
    /\ config.identifyAgent = "undefined" /\ req.xAgentId \in {Undefined, <<>>}
            => mSent = <<>>

\* finish() asked the default function about a request whose x-agent-id is
\* the empty string, that no other check stops, and sent nothing.
C22_Witness ==
    /\ finish = "ran"
    /\ config.identifyAgent = "undefined"
    /\ req.xAgentId = <<>>
    /\ ~Skipped /\ ~ErrorGated /\ ~SignatureRefused /\ ~DroppedByHook
    /\ calls.identifyAgent = 1
    /\ mSent = <<>>

\* The status of the response, as finish() reads it.
StatusCode == Coalesce(mRes.statusCode, 0)

\* No check other than the one on the status stops the request.
OtherwiseEligible ==
    /\ ~Skipped
    /\ Identity # <<>>
    /\ ~SignatureRefused
    /\ ~DroppedByHook

\* C23: with meterErrors unset or false a response whose status is 400 or
\* more produces no record; with meterErrors true, and the request otherwise
\* eligible, exactly one record is produced and its statusCode is the status
\* of the response; a status below 400 is never rejected by this check.
C23_ErrorResponseGating ==
    Finished =>
        /\ config.meterErrors \in {<<>>, <<FALSE>>} /\ StatusCode >= 400 => mSent = <<>>
        /\ config.meterErrors = <<TRUE>> /\ OtherwiseEligible
                => Len(mSent) = 1 /\ mSent[1].statusCode = StatusCode
        /\ StatusCode < 400 /\ OtherwiseEligible => Len(mSent) = 1

\* With meterErrors true, the record of a response of status 400 was sent.
C23_Witness ==
    /\ finish = "ran"
    /\ config.meterErrors = <<TRUE>>
    /\ mRes.statusCode = <<400>>
    /\ Len(mSent) = 1
    /\ mSent[1].statusCode = 400

\* C24: when the skip flag of the route is true, or its skip predicate
\* returns true for the request, nothing is sent and none of the
\* identification function, the units function and the beforeEmit hook is
\* invoked for the request.
C24_SkipHasNoSideEffects ==
    Skipped =>
        /\ mSent = <<>>
        /\ calls.identifyAgent = 0
        /\ calls.units = 0
        /\ calls.beforeEmit = 0
        /\ idCounter = 0

\* finish() ran for a request its skip predicate holds of, on a route with a
\* units function, under a configuration with an identification function
\* and a beforeEmit hook: none of them was invoked and nothing was sent.
C24_Witness ==
    /\ finish = "ran"
    /\ options.skip = Function(TRUE)
    /\ options.units.type = "function"
    /\ config.identifyAgent = "custom"
    /\ config.beforeEmit = "enrich"
    /\ ~ErrorGated /\ ~SignatureRefused
    /\ calls = [NoCalls EXCEPT !.skip = 1]
    /\ mSent = <<>>

\* The signature of the body of the request under the configured secret.
Expected == signPayload(BodyText(req), config.signingSecret)

C27_UnsignedOrInvalidDropped ==
    /\ config.signingSecret # Undefined
    /\ req.xAgentSignature = Undefined \/ ~SignatureVerified
    => mSent = <<>>

\* The record reaches the beforeEmit hook: no earlier check stops it.
PassedEarlierChecks ==
    /\ ~Skipped
    /\ ~ErrorGated
    /\ Identity # <<>>
    /\ ~SignatureRefused

\* C28: a configured beforeEmit hook is applied exactly once to each record
\* that passed all earlier checks (and to nothing else); if it returns
\* undefined send is not invoked, otherwise what is handed to send is what
\* the hook returned, not the record the hook was given.
C28_BeforeEmitDecidesWhatIsSent ==
    Finished /\ config.beforeEmit # "undefined" =>
        /\ calls.beforeEmit = IF PassedEarlierChecks THEN 1 ELSE 0
        /\ calls.beforeEmit = Len(hookArg) /\ calls.beforeEmit = Len(hookRet)
        /\ hookRet = <<>> => mSent = <<>>
        /\ hookRet # <<>> => mSent = hookRet[1]
        /\ hookRet # <<>> /\ config.beforeEmit = "enrich"
                => mSent = beforeEmit("enrich", hookArg[1]) /\ mSent # hookArg

\* The hook replaced the metadata of the record and its result was sent.
C28_Witness ==
    /\ finish = "ran"
    /\ config.beforeEmit = "enrich"
    /\ calls.beforeEmit = 1
    /\ Len(mSent) = 1
    /\ mSent = hookRet[1]
    /\ mSent[1].metadata # hookArg[1].metadata

\* C29: the middleware returned by express() calls next() exactly once for
\* every request, whatever becomes of the record (skipped, no identity,
\* error status, bad signature, dropped by the hook, or metered), and does so
\* when it is called, without waiting for "finish" or for send.
C29_NextCalledOnce ==
    entry = "express" => nextCalls = 1

---------------------------------------------------------------------------
(* Further properties of HttpTransport *)

\* C31: a flush that detached a batch makes at most maxRetries requests,
\* whatever the endpoint does, and when it has ended the batch has exactly
\* one final outcome: the endpoint accepted it, or, when onError is
\* configured, it was passed to onError exactly once.  This for every
\* maxRetries, 1 and 0 included.
C31_FlushEndsInOneOutcome ==
    \A i \in 1..Len(batches) :
        LET b == batches[i] IN
        /\ Len(b.payloads) <= maxRetries
        /\ Len(b.onError) <= 1
        /\ b.stage = "delivered" => b.onError = <<>>
        /\ (Ended(b) /\ hasOnError) => (b.stage = "delivered" \/ Len(b.onError) = 1)

\* The sum of the numbers in the sequence s.
RECURSIVE Total(_)
Total(s) == IF s = <<>> THEN 0 ELSE Head(s) + Total(Tail(s))

\* 100*(k+1)^2 for k = 0..n-1, summed: 100, 500, 1400, ...
RECURSIVE Schedule(_)
Schedule(n) == IF n <= 0 THEN 0 ELSE 100 * n * n + Schedule(n - 1)

\* C32: after the failed attempt k (from 0) of a batch, unless it is the
\* final one, the flush waits 100*(k+1)^2 ms before attempt k+1; no wait
\* follows a successful attempt or the final attempt k = maxRetries-1, so
\* onError is called without a trailing delay and a batch whose attempts all
\* failed has waited the sum of 100*(k+1)^2 for k = 0..maxRetries-2 in all.
C32_BackoffSchedule ==
    \A i \in 1..Len(batches) :
        LET b == batches[i] IN
        /\ \A k \in 1..Len(b.delays) :
                /\ b.delays[k] = 100 * k * k
                /\ b.outcomes[k] # "ok"
                /\ k <= maxRetries - 1
        /\ b.stage = "sleep" => Len(b.delays) = Len(b.outcomes)
        /\ b.stage = "fetch" => Len(b.delays) = Len(b.outcomes)
        /\ b.stage = "delivered" => Len(b.delays) = Len(b.outcomes) - 1
        /\ (Ended(b) /\ b.stage # "delivered" /\ maxRetries >= 1) =>
                /\ Len(b.delays) = maxRetries - 1
                /\ Total(b.delays) = Schedule(maxRetries - 1)
        /\ b.onError # <<>> => Len(b.delays) = Len(b.outcomes) - 1

\* The three attempts of a batch failed under the default maxRetries: the
\* flush waited 100 and 400 ms and called onError after the third.
C32_Witness ==
    /\ maxRetries = DefaultMaxRetries
    /\ Len(batches) = 1
    /\ Len(batches[1].outcomes) = 3
    /\ batches[1].delays = <<100, 400>>
    /\ Len(batches[1].onError) = 1
    /\ batches[1].stage = "gaveUp"

\* The batches of the HttpTransport whose flush has not ended.
InFlight == {i \in 1..Len(batches) : ~Ended(batches[i])}

\* C33: flush is serialized on each sink.  At any time at most one batch of
\* an HttpTransport is in flight or backing off, and at most one attestation
\* of an AttestationTransport is with its handler or the delegate: a flush
\* asked for meanwhile does not run beside it.
C33_FlushSerialized ==
    /\ Cardinality(InFlight) <= 1
    /\ Cardinality(FlushesIn({"handler", "delegateFlush"})) <= 1

\* The k-th record passed to send is in a batch for which a request was made.
Submitted(k) ==
    \E i \in 1..Len(batches) :
        /\ In(hSent[k], batches[i].records)
        /\ batches[i].payloads # <<>>

\* C34: with flushIntervalMs set and destroy not called, every record passed
\* to send is eventually detached and submitted for delivery, with no
\* explicit flush and whether or not the buffer reaches batchSize, as long
\* as the timer keeps firing; a flush by the timer makes its requests, waits
\* and reports like any other.
C34_TimerFlushesEveryRecord ==
    /\ \A k \in 1..MaxHttpSends :
            (Len(hSent) >= k) ~> (Len(hSent) >= k /\ Submitted(k))
    /\ [](\A i \in BatchesBy("timer") :
            /\ Len(batches[i].payloads) <= maxRetries
            /\ \A n \in 1..Len(batches[i].delays) : batches[i].delays[n] = Backoff(n - 1))

---------------------------------------------------------------------------
(* Further properties of AgentMeter *)

\* C35: when res.on is defined, record checks nothing and sends nothing when
\* it is called; the record is built and sent only when res emits "finish",
\* with the status the response has at that moment; as long as the event
\* has not fired nothing is sent for the request.
C35_RecordOnlyAtFinish ==
    /\ []((mRes # <<>> /\ mRes.on /\ finish \in {"none", "listening"}) =>
            /\ mSent = <<>>
            /\ calls = NoCalls
            /\ hookArg = <<>>
            /\ idCounter = 0)
    /\ []((entry = "express" /\ mRes.on) => finish # "none")
    /\ [][(mRes.on /\ (mSent' # mSent \/ calls' # calls \/ idCounter' # idCounter)) =>
            /\ finish = "listening"
            /\ finish' \in {"ran", "threw"}
            /\ \A i \in 1..Len(mSent') :
                    mSent'[i].statusCode = Coalesce(mRes.statusCode, 0)]_vars

\* The record was sent when the event fired, with the status 400 that an
\* error-metering configuration lets through.
C35_Witness ==
    /\ mRes.on
    /\ finish = "ran"
    /\ config.meterErrors = <<TRUE>>
    /\ Len(mSent) = 1
    /\ mSent[1].statusCode = 400
    /\ nextCalls = 1

---------------------------------------------------------------------------
(* Further properties of request signing *)

\* C36: verifySignature never raises.  For every string presented that does
\* not spell the expected signature, strings of the expected length that are
\* not hexadecimal included, it returns false.
C36_VerifySignatureNeverThrows ==
    sgResult # <<>> =>
        /\ ~Verification.result.threw
        /\ ToUpperCase(sgSignature[1])
                # ToUpperCase(signPayload(Verification.payload, Verification.secret))
                => Rejected(Verification)

---------------------------------------------------------------------------
(* Further properties of the sinks *)

\* C37: for batchSize >= 1, whenever a call of send on an HttpTransport or
\* an AttestationTransport has returned, the buffer of the sink holds fewer
\* than batchSize records, whatever flushes are in flight, backing off or
\* waiting for their handler.
C37_BufferBelowBatchSize ==
    /\ Len(hBuffer) < hBatchSize
    /\ Len(buffer) < batchSize

\* A send has returned with one record in the buffer of an HttpTransport of
\* batchSize 2 while the batch of an earlier flush is backing off.
C37_Witness ==
    /\ hBatchSize = 2
    /\ hLastCall = "send"
    /\ Len(hBuffer) = 1
    /\ Len(batches) = 1
    /\ batches[1].stage = "sleep"

\* The endpoint has accepted the i-th batch detached.
Delivered(i) == i <= Len(batches) /\ batches[i].stage = "delivered"

\* C38: delivery keeps the order of the sends across batches.  Batches hold
\* the records in send order (C17), so: when a later batch is accepted while
\* an earlier one is not, no step accepts the earlier one afterwards, retried
\* or not.
C38_AcceptedInSendOrder ==
    [][\A i, j \in 1..MaxHttpSends :
        (i < j /\ Delivered(j) /\ ~Delivered(i)) => ~Delivered(i)']_vars

\* C39: every record handed to the sink names its agent: agent.agentId is
\* defined and not empty, with the default identification and with a custom
\* identifyAgent alike (no beforeEmit hook of the model rewrites the agent).
C39_SentRecordNamesItsAgent ==
    \A i \in 1..Len(mSent) : Truthy(mSent[i].agent.agentId)

\* C40 as stated: under every configuration, with or without signingSecret,
\* a record handed to the sink with requestSignature set belongs to a
\* request whose signature header passed verifySignature.
C40_SignatureOnlyIfVerified ==
    \A i \in 1..Len(mSent) :
        mSent[i].requestSignature # Undefined
            => config.signingSecret # Undefined /\ SignatureVerified

\* C40, amended: the record carries the x-agent-signature header as it was
\* received.  When a signing secret is configured, a record handed to the
\* sink with a requestSignature that is not empty belongs to a request whose
\* header passed verifySignature against the request body; without a secret,
\* and for an empty header, the value is carried unverified.
C40_SignatureVerifiedUnderSecret ==
    \A i \in 1..Len(mSent) :
        /\ mSent[i].requestSignature = req.xAgentSignature
        /\ config.signingSecret # Undefined /\ Truthy(mSent[i].requestSignature)
            => SignatureVerified

\* Under a configured secret, a record carrying the signature of the body
\* was sent.
C40_Witness ==
    /\ finish = "ran"
    /\ config.signingSecret = <<"k1">>
    /\ Len(mSent) = 1
    /\ mSent[1].requestSignature = Expected

===========================================================================
